---------------------------- MODULE Spec2Model ----------------------------
(***************************************************************************)
(* A model of the 2D pool physics engine (src/src/engine/Engine.ts), its   *)
(* vector primitives (src/unnamed/part_005), the Ball body                 *)
(* (src/unnamed/part_000), the Cue (src/src/game/Cue.tsx) and the          *)
(* EightBallPool scene (src/src/game/EightBallPool.ts).                    *)
(*                                                                         *)
(* JavaScript numbers are modelled as exact rationals [n, d] in lowest     *)
(* terms with d >= 0.  d = 0 encodes the non-finite values: 1/0 is         *)
(* Infinity, -1/0 is -Infinity and 0/0 is NaN.                             *)
(***************************************************************************)
EXTENDS Integers, Sequences, FiniteSets, TLC

---------------------------------------------------------------------------
(* Numbers *)

RECURSIVE GCD(_, _)
GCD(a, b) == IF b = 0 THEN a ELSE GCD(b, a % b)

IAbs(i) == IF i < 0 THEN -i ELSE i

ISign(i) == IF i < 0 THEN -1 ELSE IF i > 0 THEN 1 ELSE 0

R(n, d) ==
  IF d = 0 THEN [n |-> ISign(n), d |-> 0]
  ELSE LET g == GCD(IAbs(n), IAbs(d))
           s == IF d < 0 THEN -1 ELSE 1
       IN  [n |-> (s * n) \div g, d |-> (s * d) \div g]

Z(i) == [n |-> i, d |-> 1]

NaN == [n |-> 0, d |-> 0]

Infinity == [n |-> 1, d |-> 0]

IsNaN(a) == a.n = 0 /\ a.d = 0

IsFinite(a) == a.d > 0

RNeg(a) == [n |-> -a.n, d |-> a.d]

RAdd(a, b) ==
  IF a.d = 0 /\ b.d = 0
  THEN (IF a.n = b.n THEN a ELSE NaN)
  ELSE IF a.d = 0 THEN a
  ELSE IF b.d = 0 THEN b
  ELSE LET g == GCD(a.d, b.d)
       IN  R(a.n * (b.d \div g) + b.n * (a.d \div g), (a.d \div g) * b.d)

RSub(a, b) == RAdd(a, RNeg(b))

RMul(a, b) ==
  IF a.d = 0 \/ b.d = 0
  THEN [n |-> ISign(a.n) * ISign(b.n), d |-> 0]
  ELSE LET g1 == GCD(IAbs(a.n), b.d)
           g2 == GCD(IAbs(b.n), a.d)
       IN  [n |-> (a.n \div g1) * (b.n \div g2), d |-> (a.d \div g2) * (b.d \div g1)]

RInv(a) == IF a.n < 0 THEN [n |-> -a.d, d |-> -a.n] ELSE [n |-> a.d, d |-> a.n]

RDiv(a, b) == RMul(a, RInv(b))

\* The comparison operators of JavaScript: every comparison with NaN is false.
RLt(a, b) ==
  /\ ~IsNaN(a)
  /\ ~IsNaN(b)
  /\ IF a.d = 0 \/ b.d = 0
     THEN a.n * b.d < b.n * a.d \/ (a.d = 0 /\ b.d = 0 /\ a.n < b.n)
     ELSE LET g == GCD(a.d, b.d)
          IN  a.n * (b.d \div g) < b.n * (a.d \div g)

RGt(a, b) == RLt(b, a)

REq(a, b) == ~IsNaN(a) /\ ~IsNaN(b) /\ a = b

RLe(a, b) == RLt(a, b) \/ REq(a, b)

RGe(a, b) == RLe(b, a)

\* A number used as a condition: 0 and NaN are falsy.
Truthy(a) == a.n # 0

\* Math.max, Math.min, Math.abs, Math.ceil, Math.pow(x, 2)
RMax(a, b) == IF IsNaN(a) \/ IsNaN(b) THEN NaN ELSE IF RLt(a, b) THEN b ELSE a

RMin(a, b) == IF IsNaN(a) \/ IsNaN(b) THEN NaN ELSE IF RLt(b, a) THEN b ELSE a

RAbs(a) == [n |-> IAbs(a.n), d |-> a.d]

RCeil(a) == IF a.d = 0 THEN a ELSE Z(-((-a.n) \div a.d))

RSq(a) == RMul(a, a)

\* The largest r with r * r <= i, by bisection on lo..hi.
RECURSIVE ISqrtIn(_, _, _)
ISqrtIn(i, lo, hi) ==
  IF lo >= hi THEN lo
  ELSE LET mid == (lo + hi + 1) \div 2
       IN  IF mid * mid <= i THEN ISqrtIn(i, mid, hi) ELSE ISqrtIn(i, lo, mid - 1)

ISqrt(i) == ISqrtIn(i, 0, IF i < 46340 THEN i ELSE 46340)

\* Inexact square roots are rounded down to a multiple of 1/SqrtScale.
SqrtScale == 64

\* Math.sqrt: exact on the squares of rationals.
RSqrt(a) ==
  IF a.d = 0 THEN (IF a.n = 1 THEN Infinity ELSE NaN)
  ELSE IF a.n < 0 THEN NaN
  ELSE LET rn == ISqrt(a.n)
           rd == ISqrt(a.d)
       IN  IF rn * rn = a.n /\ rd * rd = a.d
           THEN R(rn, rd)
           ELSE R(ISqrt((a.n * SqrtScale * SqrtScale) \div a.d), SqrtScale)

clamp(num, min, max) == RMin(RMax(num, min), max)

---------------------------------------------------------------------------
(* Vector2 and Transform *)

Vector2(x, y) == [x |-> x, y |-> y]

ZERO == Vector2(Z(0), Z(0))

VectorTo(this, vector) == Vector2(RSub(this.x, vector.x), RSub(this.y, vector.y))

Dot(this, vector) == RAdd(RMul(this.x, vector.x), RMul(this.y, vector.y))

Mult(this, scalar) == Vector2(RMul(this.x, scalar), RMul(this.y, scalar))

MagnitudeSquared(this) == RAdd(RMul(this.x, this.x), RMul(this.y, this.y))

Subtract(A, B) == Vector2(RSub(A.x, B.x), RSub(A.y, B.y))

Add(A, B) == Vector2(RAdd(A.x, B.x), RAdd(A.y, B.y))

Normalize(this) ==
  LET length == RSqrt(RAdd(RMul(this.x, this.x), RMul(this.y, this.y)))
  IN  IF Truthy(length)
      THEN Vector2(RDiv(this.x, length), RDiv(this.y, length))
      ELSE Vector2(Z(0), Z(0))

Transform(position, rotation) == [position |-> position, rotation |-> rotation]

---------------------------------------------------------------------------
(* Shape, Circle, Box, AABB *)

Shape(props) ==
  [interpolatedTransform |-> props.transform,
   previous |-> props.transform,
   current |-> props.transform]

Circle(props) == Shape(props) @@ [kind |-> "Circle", radius |-> props.radius]

Box(props) == Shape(props) @@ [kind |-> "Box", width |-> props.width, height |-> props.height]

AABB(min, max) == [min |-> min, max |-> max]

\* Box.GenerateAABB and Circle.GenerateAABB
GenerateAABB(shape, transform) ==
  IF shape.kind = "Box"
  THEN AABB(Vector2(RSub(transform.position.x, RDiv(shape.width, Z(2))),
                    RSub(transform.position.y, RDiv(shape.height, Z(2)))),
            Vector2(RAdd(transform.position.x, RDiv(shape.width, Z(2))),
                    RAdd(transform.position.y, RDiv(shape.height, Z(2)))))
  ELSE AABB(Vector2(RSub(transform.position.x, shape.radius),
                    RSub(transform.position.y, shape.radius)),
            Vector2(RAdd(transform.position.x, shape.radius),
                    RAdd(transform.position.y, shape.radius)))

ShapeSetTransform(shape, transform) ==
  [shape EXCEPT !.previous = shape.current, !.current = transform]

GetInterpolatedTransform(shape, interpolation) ==
  LET x == RAdd(shape.previous.position.x,
                RMul(RSub(shape.current.position.x, shape.previous.position.x), interpolation))
      y == RAdd(shape.previous.position.y,
                RMul(RSub(shape.current.position.y, shape.previous.position.y), interpolation))
      rotation == RAdd(shape.previous.rotation,
                       RMul(RSub(shape.current.rotation, shape.previous.rotation), interpolation))
  IN  Transform(Vector2(x, y), rotation)

UpdateTransform(shape, interpolation) ==
  [shape EXCEPT !.interpolatedTransform = GetInterpolatedTransform(shape, interpolation)]

---------------------------------------------------------------------------
(* RigidBody, Ball, Barrier *)

\* Optional constructor properties are fields that may be absent from props.
Has(props, f) == f \in DOMAIN props

RigidBody(props) ==
  [shape |-> props.shape,
   transform |-> props.shape.previous,
   velocity |-> IF Has(props, "velocity") THEN props.velocity ELSE ZERO,
   isStationary |-> IF Has(props, "velocity") /\ Truthy(MagnitudeSquared(props.velocity))
                    THEN FALSE ELSE TRUE,
   inv_mass |-> IF Has(props, "mass") /\ Truthy(props.mass)
                THEN RDiv(Z(1), props.mass) ELSE Z(0),
   restitution |-> props.restitution,
   force |-> ZERO,
   static |-> IF Has(props, "static") THEN props.static ELSE FALSE,
   previous |-> props.shape.previous]

Ball(props) ==
  RigidBody(props) @@
    [class |-> "Ball", spin |-> IF Has(props, "spin") THEN props.spin ELSE Vector2(Z(0), Z(0))]

Barrier(props) == RigidBody(props) @@ [class |-> "Barrier"]

BodySetTransform(body, transform) ==
  [body EXCEPT !.previous = body.transform,
               !.transform = transform,
               !.shape = ShapeSetTransform(body.shape, transform)]

ApplyForce(body, force) == [body EXCEPT !.force = Add(body.force, force)]

ApplyImpulse(body, impulse) == [body EXCEPT !.velocity = Add(body.velocity, impulse)]

SPIN_COEFFICIENT == 1000

SPIN_DECAY_COEFFICIENT == R(11, 10)

FRICTION_COEFFICIENT == 9000

applySpin(body, timeStep) ==
  LET spin == Mult(body.spin, Z(SPIN_COEFFICIENT))
      forced == ApplyForce(body, spin)
      spinReduction == Mult(body.spin, RMul(SPIN_DECAY_COEFFICIENT, timeStep))
  IN  [forced EXCEPT !.spin = Subtract(body.spin, spinReduction)]

applyFriction(body) ==
  LET friction == Mult(Normalize(Mult(body.velocity, Z(-1))), Z(FRICTION_COEFFICIENT))
  IN  ApplyForce(body, friction)

\* Ball.FixedUpdate; RigidBody.FixedUpdate is empty.
BodyFixedUpdate(body, timeStep) ==
  IF body.class = "Ball" THEN applyFriction(applySpin(body, timeStep)) ELSE body

---------------------------------------------------------------------------
(* Contact tests *)

Null == [null |-> TRUE]

CollisionData(penetration, normal) == [penetration |-> penetration, normal |-> normal]

Pair(bodyA, bodyB) == [bodyA |-> bodyA, bodyB |-> bodyB]

Manifold(pair, collisionData) == [pair |-> pair, collisionData |-> collisionData]

\* `n == closest` compares two distinct Vector2 objects by identity: it is false.
SameObject(n, closest) == FALSE

\* The closest point of the box to the circle's centre, relative to the box's centre.
Closest(n, x_extent, y_extent) ==
  Vector2(clamp(n.x, RNeg(x_extent), x_extent), clamp(n.y, RNeg(y_extent), y_extent))

\* The result of a box/circle test, from the squared distance and the unit normal.
BoxContactData(distanceSquared, unit, circleRadius, inside) ==
  IF RGt(distanceSquared, RMul(circleRadius, circleRadius)) /\ ~inside
  THEN Null
  ELSE IF inside
       THEN CollisionData(RSub(circleRadius, RSqrt(distanceSquared)),
                          Vector2(RNeg(unit.x), RNeg(unit.y)))
       ELSE CollisionData(RSub(circleRadius, RSqrt(distanceSquared)), unit)

\* The part of a box/circle test after `normal` has been computed.
BoxContactAlong(normal, circleRadius, inside) ==
  BoxContactData(RAdd(RSq(normal.x), RSq(normal.y)), Normalize(normal), circleRadius, inside)

\* The box/circle test with the normal taken from the closest point to n.
BoxContactAtReversed(n, closest, circleRadius) ==
  BoxContactAlong(Vector2(RSub(n.x, closest.x), RSub(n.y, closest.y)), circleRadius,
                  SameObject(n, closest))

\* The part of a box/circle test after `closest` has been computed.
BoxContactAt(n, closest, circleRadius) ==
  BoxContactAlong(Vector2(RSub(closest.x, n.x), RSub(closest.y, n.y)), circleRadius,
                  SameObject(n, closest))

\* The part of a box/circle test after `n` and the box's extents have been computed.
BoxContact(n, x_extent, y_extent, circleRadius) ==
  BoxContactAt(n, Closest(n, x_extent, y_extent), circleRadius)

getCollisionCircleVsAABB(A, B) ==
  BoxContact(Vector2(RSub(B.current.position.x, A.current.position.x),
                     RSub(B.current.position.y, A.current.position.y)),
             RDiv(B.width, Z(2)), RDiv(B.height, Z(2)), A.radius)

getCollisionAABBVsCircle(A, B) ==
  BoxContact(Vector2(RSub(B.current.position.x, A.current.position.x),
                     RSub(B.current.position.y, A.current.position.y)),
             RDiv(A.width, Z(2)), RDiv(A.height, Z(2)), B.radius)

\* The result of a circle/circle test, from the radius sum and the squared distance.
\* The circle/circle test with its comparison turned round.
CircleContactDataReversed(r, distanceSquared, normal) ==
  IF RLt(distanceSquared, RSq(r))
  THEN Null
  ELSE CollisionData(RSub(r, RSqrt(distanceSquared)), normal)

CircleContactData(r, distanceSquared, normal) ==
  IF RLt(RSq(r), distanceSquared)
  THEN Null
  ELSE CollisionData(RSub(r, RSqrt(distanceSquared)), normal)

getCollisionCircleVsCircle(A, B) ==
  CircleContactData(
    RAdd(A.radius, B.radius),
    RAdd(RSq(RSub(A.current.position.x, B.current.position.x)),
         RSq(RSub(A.current.position.y, B.current.position.y))),
    Normalize(Vector2(RSub(B.current.position.x, A.current.position.x),
                      RSub(B.current.position.y, A.current.position.y))))

\* bodies is the scene's body array; a pair holds two indices into it.
ManifoldOrNull(pair, collisionData) ==
  IF collisionData = Null THEN Null ELSE Manifold(pair, collisionData)

checkCollision(bodies, pair) ==
  LET shapeA == bodies[pair.bodyA].shape
      shapeB == bodies[pair.bodyB].shape
  IN  ManifoldOrNull(pair,
        IF shapeA.kind = "Circle" /\ shapeB.kind = "Circle"
        THEN getCollisionCircleVsCircle(shapeA, shapeB)
        ELSE IF shapeA.kind = "Circle" /\ shapeB.kind = "Box"
        THEN getCollisionAABBVsCircle(shapeB, shapeA)
        ELSE IF shapeA.kind = "Box" /\ shapeB.kind = "Circle"
        THEN getCollisionCircleVsAABB(shapeB, shapeA)
        ELSE Null)

checkCollisionAABBVsAABB(A, B) ==
  IF RLt(A.max.x, B.min.x) \/ RGt(A.min.x, B.max.x) THEN FALSE
  ELSE IF RLt(A.max.y, B.min.y) \/ RGt(A.min.y, B.max.y) THEN FALSE
  ELSE TRUE

---------------------------------------------------------------------------
(* Manifold: resolution.  A world w = [bodies, log] is threaded through the *)
(* operations of a fixed step; log records what they did.                   *)

World(bodies, log) == [bodies |-> bodies, log |-> log]

slop == R(1, 100)

percent == Z(1)

applyPositionalCorrection(w, manifold) ==
  LET a == manifold.pair.bodyA
      b == manifold.pair.bodyB
      A == w.bodies[a]
      B == w.bodies[b]
      correction == RDiv(RMax(RSub(manifold.collisionData.penetration, slop), Z(0)),
                         RMul(RAdd(A.inv_mass, B.inv_mass), percent))
      correctionVector == Mult(manifold.collisionData.normal, correction)
      positionA == Subtract(A.transform.position, Mult(correctionVector, A.inv_mass))
      positionB == Add(B.transform.position, Mult(correctionVector, B.inv_mass))
      event == [ev |-> "applyPositionalCorrection", pair |-> manifold.pair,
                collisionData |-> manifold.collisionData,
                shapeA |-> A.shape.current, shapeB |-> B.shape.current,
                beforeA |-> A.transform.position, beforeB |-> B.transform.position,
                afterA |-> positionA, afterB |-> positionB]
  IN  World([w.bodies EXCEPT ![a].transform.position = positionA,
                             ![b].transform.position = positionB],
            Append(w.log, event))


\* resolveCollision with the impulse scaled by restitution instead of 1 + restitution.
ApplyContactImpulseWeak(A, B, normal, velocityAlongNormal) ==
  LET restitution == RMin(A.restitution, B.restitution)
      impulseScalar == RDiv(RMul(RNeg(restitution), velocityAlongNormal),
                            RAdd(A.inv_mass, B.inv_mass))
      impulse == Mult(normal, impulseScalar)
  IN  [velocityA |-> Subtract(A.velocity, Mult(impulse, A.inv_mass)),
       velocityB |-> Add(B.velocity, Mult(impulse, B.inv_mass))]

\* resolveCollision with B's share of the impulse scaled by A's inverse mass.
ApplyContactImpulseWrongMass(A, B, normal, velocityAlongNormal) ==
  LET restitution == RMin(A.restitution, B.restitution)
      impulseScalar == RDiv(RMul(RNeg(RAdd(Z(1), restitution)), velocityAlongNormal),
                            RAdd(A.inv_mass, B.inv_mass))
      impulse == Mult(normal, impulseScalar)
  IN  [velocityA |-> Subtract(A.velocity, Mult(impulse, A.inv_mass)),
       velocityB |-> Add(B.velocity, Mult(impulse, A.inv_mass))]

\* resolveCollision with the larger of the two restitutions.
ApplyContactImpulseMaxRestitution(A, B, normal, velocityAlongNormal) ==
  LET restitution == RMax(A.restitution, B.restitution)
      impulseScalar == RDiv(RMul(RNeg(RAdd(Z(1), restitution)), velocityAlongNormal),
                            RAdd(A.inv_mass, B.inv_mass))
      impulse == Mult(normal, impulseScalar)
  IN  [velocityA |-> Subtract(A.velocity, Mult(impulse, A.inv_mass)),
       velocityB |-> Add(B.velocity, Mult(impulse, B.inv_mass))]

\* The impulse of resolveCollision, applied to the pair's velocities.
ApplyContactImpulse(A, B, normal, velocityAlongNormal) ==
  LET restitution == RMin(A.restitution, B.restitution)
      impulseScalar == RDiv(RMul(RNeg(RAdd(Z(1), restitution)), velocityAlongNormal),
                            RAdd(A.inv_mass, B.inv_mass))
      impulse == Mult(normal, impulseScalar)
  IN  [velocityA |-> Subtract(A.velocity, Mult(impulse, A.inv_mass)),
       velocityB |-> Add(B.velocity, Mult(impulse, B.inv_mass))]

\* `velocityAlongNormal > 0`: the bodies are moving away from each other.
Separating(velocityAlongNormal) == RGt(velocityAlongNormal, Z(0))

resolveCollision(w, manifold) ==
  LET a == manifold.pair.bodyA
      b == manifold.pair.bodyB
      A == w.bodies[a]
      B == w.bodies[b]
      relativeVelocity == Vector2(RSub(B.velocity.x, A.velocity.x),
                                  RSub(B.velocity.y, A.velocity.y))
      velocityAlongNormal == Dot(relativeVelocity, manifold.collisionData.normal)
      after == ApplyContactImpulse(A, B, manifold.collisionData.normal, velocityAlongNormal)
      event(vA, vB) ==
        [ev |-> "resolveCollision", pair |-> manifold.pair,
         collisionData |-> manifold.collisionData,
         velocityAlongNormal |-> velocityAlongNormal,
         beforeA |-> A.velocity, beforeB |-> B.velocity,
         afterA |-> vA, afterB |-> vB]
  IN  IF Separating(velocityAlongNormal)
      THEN World(w.bodies, Append(w.log, event(A.velocity, B.velocity)))
      ELSE applyPositionalCorrection(
             World([w.bodies EXCEPT ![a].velocity = after.velocityA,
                                    ![b].velocity = after.velocityB],
                   Append(w.log, event(after.velocityA, after.velocityB))),
             manifold)

---------------------------------------------------------------------------
(* Engine: pairs, broad phase, narrow phase, integration *)

\* The nested loops of generatePairs, flattened: k runs over (bodyA, bodyB).
RECURSIVE CandidatePairs(_, _)
CandidatePairs(bodies, k) ==
  LET N == Len(bodies)
      a == ((k - 1) \div N) + 1
      b == ((k - 1) % N) + 1
  IN  IF k > N * N THEN << >>
      ELSE IF a = b THEN CandidatePairs(bodies, k + 1)
      ELSE IF bodies[a].static /\ bodies[b].static THEN CandidatePairs(bodies, k + 1)
      ELSE IF bodies[a].isStationary /\ bodies[b].isStationary
           THEN CandidatePairs(bodies, k + 1)
      ELSE << Pair(a, b) >> \o CandidatePairs(bodies, k + 1)

RECURSIVE UniquePairs(_, _, _)
\* generatePairs keeping every candidate.
UniquePairsKeepAll(pairs, k, uniquePairs) == pairs

UniquePairs(pairs, k, uniquePairs) ==
  IF k > Len(pairs) THEN uniquePairs
  ELSE LET potentialDuplicate == pairs[k]
           isDuplicate == \E i \in 1..Len(uniquePairs) :
                             /\ uniquePairs[i].bodyA = potentialDuplicate.bodyB
                             /\ uniquePairs[i].bodyB = potentialDuplicate.bodyA
       IN  UniquePairs(pairs, k + 1,
                       IF isDuplicate THEN uniquePairs
                       ELSE Append(uniquePairs, potentialDuplicate))

generatePairs(bodies) == UniquePairs(CandidatePairs(bodies, 1), 1, << >>)

\* The AABB covering a body's AABBs at its previous and its current transform.
SweptAABB(body) ==
  LET current == GenerateAABB(body.shape, body.transform)
      previous == GenerateAABB(body.shape, body.previous)
  IN  AABB(Vector2(RMin(previous.min.x, current.min.x), RMin(previous.min.y, current.min.y)),
           Vector2(RMax(previous.max.x, current.max.x), RMax(previous.max.y, current.max.y)))

broadPhase(bodies, pairs) ==
  SelectSeq(pairs, LAMBDA pair :
    checkCollisionAABBVsAABB(SweptAABB(bodies[pair.bodyA]), SweptAABB(bodies[pair.bodyB])))

subStepResolution == 4

\* The number of sub-samples counted from body A's movement along x alone.
IterationsOfFirst(bodyA, bodyB) ==
  RAdd(RCeil(RDiv(RAbs(RSub(bodyA.previous.position.x, bodyA.transform.position.x)),
                  RDiv(RSub(GenerateAABB(bodyA.shape, bodyA.transform).max.x,
                            GenerateAABB(bodyA.shape, bodyA.transform).min.x),
                       Z(subStepResolution)))),
       Z(1))

\* The number of sub-samples subStep takes for a pair.
Iterations(bodyA, bodyB) ==
  LET AABB_A_current == GenerateAABB(bodyA.shape, bodyA.transform)
      AABB_A_previous == GenerateAABB(bodyA.shape, bodyA.previous)
      xMovement_A == RAbs(RSub(AABB_A_previous.min.x, AABB_A_current.min.x))
      yMovement_A == RAbs(RSub(AABB_A_previous.min.y, AABB_A_current.min.y))
      xIterations_A == RCeil(RDiv(xMovement_A,
                         RDiv(RSub(AABB_A_current.max.x, AABB_A_current.min.x), Z(subStepResolution))))
      yIterations_A == RCeil(RDiv(yMovement_A,
                         RDiv(RSub(AABB_A_current.max.y, AABB_A_current.min.y), Z(subStepResolution))))
      AABB_B_current == GenerateAABB(bodyB.shape, bodyB.transform)
      AABB_B_previous == GenerateAABB(bodyB.shape, bodyB.previous)
      xMovement_B == RAbs(RSub(AABB_B_previous.min.x, AABB_B_current.min.x))
      yMovement_B == RAbs(RSub(AABB_B_previous.min.y, AABB_B_current.min.y))
      xIterations_B == RCeil(RDiv(xMovement_B,
                         RDiv(RSub(AABB_B_current.max.x, AABB_B_current.min.x), Z(subStepResolution))))
      yIterations_B == RCeil(RDiv(yMovement_B,
                         RDiv(RSub(AABB_B_current.max.y, AABB_B_current.min.y), Z(subStepResolution))))
      xIterations == RMax(xIterations_A, xIterations_B)
      yIterations == RMax(yIterations_A, yIterations_B)
  IN  RAdd(RMax(xIterations, yIterations), Z(1))

getInterpolatedTransform(previous, current, interpolation) ==
  LET x == RAdd(previous.position.x,
                RMul(RSub(current.position.x, previous.position.x), interpolation))
      y == RAdd(previous.position.y,
                RMul(RSub(current.position.y, previous.position.y), interpolation))
  IN  Transform(Vector2(x, y), current.rotation)

\* The loop condition of subStep: `i <= 1`.
SubStepContinues(i) == RLe(i, Z(1))

RECURSIVE SubStepLoop(_, _, _, _)

\* One sample of subStep's loop that resolves a contact and goes on sampling.
SubStepSampleGoesOn(w, tested, pair, iterations, i, interpolation, collision) ==
  SubStepLoop(
    IF collision # Null
    THEN resolveCollision(
           World([tested EXCEPT ![pair.bodyA].transform = tested[pair.bodyA].shape.current,
                                ![pair.bodyB].transform = tested[pair.bodyB].shape.current],
                 Append(w.log, [ev |-> "sample", pair |-> pair, iterations |-> iterations,
                                interpolation |-> interpolation, collision |-> TRUE])),
           collision)
    ELSE World(tested, Append(w.log, [ev |-> "sample", pair |-> pair,
                                      iterations |-> iterations,
                                      interpolation |-> interpolation,
                                      collision |-> FALSE])),
    pair, iterations, RAdd(i, RDiv(Z(1), iterations)))

\* One sample of subStep's loop once the contact test has been made: tested is
\* the body array with both shape.current set to the test transforms.
SubStepSample(w, tested, pair, iterations, i, interpolation, collision) ==
  LET a == pair.bodyA
      b == pair.bodyB
      event == [ev |-> "sample", pair |-> pair, iterations |-> iterations,
                interpolation |-> interpolation, collision |-> collision # Null]
  IN  IF collision # Null
      THEN resolveCollision(
             World([tested EXCEPT ![a].transform = tested[a].shape.current,
                                  ![b].transform = tested[b].shape.current],
                   Append(w.log, event)),
             collision)
      ELSE SubStepLoop(World(tested, Append(w.log, event)), pair, iterations,
                       RAdd(i, RDiv(Z(1), iterations)))

\* The body array with the shapes of the pair moved to the test transforms.
Tested(bodies, pair, interpolation) ==
  [bodies EXCEPT
     ![pair.bodyA].shape.current =
        getInterpolatedTransform(bodies[pair.bodyA].previous, bodies[pair.bodyA].transform,
                                 interpolation),
     ![pair.bodyB].shape.current =
        getInterpolatedTransform(bodies[pair.bodyB].previous, bodies[pair.bodyB].transform,
                                 interpolation)]

SubStepTest(w, tested, pair, iterations, i, interpolation) ==
  SubStepSample(w, tested, pair, iterations, i, interpolation, checkCollision(tested, pair))

SubStepAt(w, pair, iterations, i, interpolation) ==
  SubStepTest(w, Tested(w.bodies, pair, interpolation), pair, iterations, i, interpolation)

\* The loop of subStep from loop variable i on (i advances by 1/iterations).
SubStepLoop(w, pair, iterations, i) ==
  IF ~SubStepContinues(i) THEN w
  ELSE SubStepAt(w, pair, iterations, i, RAdd(i, RDiv(Z(1), iterations)))

subStep(w, pair) ==
  SubStepLoop(w, pair, Iterations(w.bodies[pair.bodyA], w.bodies[pair.bodyB]), Z(0))

RECURSIVE narrowPhaseFrom(_, _, _)
narrowPhaseFrom(w, pairs, k) ==
  IF k > Len(pairs) THEN w ELSE narrowPhaseFrom(subStep(w, pairs[k]), pairs, k + 1)

narrowPhase(w, pairs) == narrowPhaseFrom(w, pairs, 1)

\* `collision?.applyPositionalCorrection()`
Corrected(w, collision) ==
  IF collision = Null THEN w ELSE applyPositionalCorrection(w, collision)

RECURSIVE correctPositionsFrom(_, _, _)
correctPositionsFrom(w, pairs, k) ==
  IF k > Len(pairs) THEN w
  ELSE correctPositionsFrom(Corrected(w, checkCollision(w.bodies, pairs[k])), pairs, k + 1)

correctPositions(w, pairs) == correctPositionsFrom(w, pairs, 1)

\* correctShapePositions leaving every shape as it is.
correctShapePositionsSkipped(bodies) == bodies

correctShapePositions(bodies) ==
  [i \in 1..Len(bodies) |-> [bodies[i] EXCEPT !.shape.current = bodies[i].transform]]


\* The stationary test with the comparison turned around.
BelowThresholdReversed(velocity) == RGt(MagnitudeSquared(velocity), Z(1))

\* `body.velocity.MagnitudeSquared() < 1`
BelowThreshold(velocity) == RLt(MagnitudeSquared(velocity), Z(1))


\* applyForces without the reset of the force accumulator.
IntegrateKeepingForce(body, timeStep) ==
  LET acceleration == Mult(body.force, body.inv_mass)
      velocity == Add(body.velocity, Mult(acceleration, timeStep))
      position == Add(body.transform.position, Mult(velocity, timeStep))
      snapped == IF BelowThreshold(velocity)
                 THEN [body EXCEPT !.velocity = ZERO, !.isStationary = TRUE]
                 ELSE [body EXCEPT !.velocity = velocity, !.isStationary = FALSE]
  IN  BodySetTransform(snapped, Transform(position, body.transform.rotation))

\* The loop body of applyForces for one body, after its FixedUpdate hook has run.
Integrate(body, timeStep) ==
  LET acceleration == Mult(body.force, body.inv_mass)
      velocity == Add(body.velocity, Mult(acceleration, timeStep))
      position == Add(body.transform.position, Mult(velocity, timeStep))
      snapped == IF BelowThreshold(velocity)
                 THEN [body EXCEPT !.velocity = ZERO, !.isStationary = TRUE]
                 ELSE [body EXCEPT !.velocity = velocity, !.isStationary = FALSE]
      moved == BodySetTransform(snapped, Transform(position, body.transform.rotation))
  IN  [moved EXCEPT !.force = Vector2(Z(0), Z(0))]

applyForces(timeStep, bodies) ==
  [i \in 1..Len(bodies) |-> Integrate(BodyFixedUpdate(bodies[i], timeStep), timeStep)]

---------------------------------------------------------------------------
(* Cue and EightBallPool *)

Aiming == "Aiming"

Simulating == "Simulating"

\* Cue.HitBall
HitBall(cue, bodies) ==
  LET forceVector == VectorTo(bodies[cue.cueBall].transform.position, cue.tipPosition)
  IN  [bodies EXCEPT ![cue.cueBall] = ApplyImpulse(bodies[cue.cueBall], Mult(forceVector, Z(10)))]

\* EightBallPool.SetState
SetState(scene, state) ==
  [scene EXCEPT !.cue.visible = (state # Simulating), !.state = state]

\* EightBallPool.PostFixedUpdate
ScenePostFixedUpdate(scene, bodies) ==
  IF scene.state = Simulating /\ ~(\E i \in 1..Len(bodies) : ~bodies[i].isStationary)
  THEN SetState(scene, Aiming)
  ELSE scene

---------------------------------------------------------------------------
(* Scenes the engine is constructed over *)

At(x, y) == Transform(Vector2(x, y), Z(0))

\* A static box, 20 x 20, centred at the origin.
Wall == Barrier([static |-> TRUE, restitution |-> R(4, 5),
                 shape |-> Box([transform |-> At(Z(0), Z(0)), width |-> Z(20), height |-> Z(20)])])

\* A frictionless disc of radius 2.
Disc(x, y, velocity, mass, restitution) ==
  Barrier([mass |-> mass, restitution |-> restitution, velocity |-> velocity,
           shape |-> Circle([transform |-> At(x, y), radius |-> Z(2)])])

\* A disc constructed without a mass.
MasslessDisc(x, y, velocity) ==
  Barrier([restitution |-> Z(1), velocity |-> velocity,
           shape |-> Circle([transform |-> At(x, y), radius |-> Z(2)])])

PoolBall(x, y, velocity) ==
  Ball([mass |-> Z(100), restitution |-> R(1, 2), velocity |-> velocity,
        shape |-> Circle([transform |-> At(x, y), radius |-> Z(2)])])

Coarse == [maxStepsPerFrame |-> 3, targetStepsPerSecond |-> 4]

Fine == [maxStepsPerFrame |-> 3, targetStepsPerSecond |-> 90]

SceneOf(physicsParams, bodies, cueBall) ==
  [physicsParams |-> physicsParams, bodies |-> bodies, cueBall |-> cueBall]

\* A disc flying at the wall from the right, from several distances and at
\* several speeds.
DropScenes ==
  { SceneOf(Coarse, << Wall, Disc(x, Z(0), Vector2(Z(-v), Z(0)), Z(100), e) >>, 2) :
      x \in {R(31, 2), Z(17)}, v \in {12, 28}, e \in {R(1, 2)} }

\* Two discs approaching head-on, to the right of the wall.
HeadOnScenes ==
  { SceneOf(Coarse, << Disc(Z(20), Z(0), Vector2(Z(8), Z(0)), Z(100), eA),
                       Disc(Z(28), Z(0), Vector2(Z(-8), Z(0)), mB, eB) >>, 1) :
      mB \in {Z(100), Z(200)}, eA \in {Z(1), R(1, 2)}, eB \in {Z(1), Z(0)} }

\* A disc without mass sliding along, or flying at, the right side of the wall.
MasslessScenes ==
  { SceneOf(Coarse, << MasslessDisc(Z(12), Z(0), v), Wall >>, 1) :
      v \in {Vector2(Z(0), Z(4)), Vector2(Z(-4), Z(0))} }

\* A pool ball at rest or rolling to rest beside the wall, and a ball rolling
\* into a second one.
BallScenes ==
  { SceneOf(Fine, << Wall, PoolBall(Z(14), Z(0), Vector2(Z(v), Z(0))) >>, 2) : v \in {0, 3} }
  \cup { SceneOf(Fine, << PoolBall(Z(14), Z(0), Vector2(Z(90), Z(0))),
                          PoolBall(Z(19), Z(0), Vector2(Z(0), Z(0))) >>, 1) }

\* A static box, 20 x 20, centred at (x, 0).
WallAt(x) == Barrier([static |-> TRUE, restitution |-> R(4, 5),
                      shape |-> Box([transform |-> At(x, Z(0)), width |-> Z(20), height |-> Z(20)])])

\* A disc resting against the right face of the wall, a second disc flying at it
\* from the right, and a second wall far to the left.
ClusterScenes ==
  { SceneOf(Coarse, << Wall,
                       Disc(Z(12), Z(0), Vector2(Z(0), Z(0)), Z(100), R(1, 2)),
                       Disc(R(37, 2), Z(0), Vector2(Z(-12), Z(0)), Z(100), R(1, 2)),
                       WallAt(Z(-40)) >>, 3) }

\* A disc flying at the wall's right face at an angle.
GlancingScenes ==
  { SceneOf(Coarse, << Wall, Disc(R(31, 2), Z(0), Vector2(Z(-12), Z(4)), Z(100), R(1, 2)) >>, 2) }

\* Two discs created on the same spot, one of them moving: both with a mass,
\* or both without.
CoincidentScenes ==
  { SceneOf(Coarse, << Disc(Z(16), Z(0), Vector2(Z(4), Z(0)), Z(100), Z(1)),
                       Disc(Z(16), Z(0), Vector2(Z(0), Z(0)), Z(100), Z(1)) >>, 2),
    SceneOf(Coarse, << MasslessDisc(Z(30), Z(0), Vector2(Z(8), Z(0))),
                       MasslessDisc(Z(30), Z(0), Vector2(Z(0), Z(0))) >>, 1) }

Scenes ==
  DropScenes \cup HeadOnScenes \cup MasslessScenes \cup BallScenes \cup ClusterScenes
    \cup GlancingScenes \cup CoincidentScenes

---------------------------------------------------------------------------
(* State *)

VARIABLES
  engine,     \* Engine: maxStepsPerFrame, stepDuration, timeScale, previousFrameTime,
              \*         engineTimeSincePreviousStep
  bodies,     \* scene.bodies
  scene,      \* EightBallPool: state, cue
  pc,         \* where the render callback stands
  pass,       \* the loop variable i of SimulatePhysicsStep
  log,        \* what the operations of the current fixed step did
  calls,      \* the stages the current fixed step has run, in order
  frame,      \* the current render callback: steps run, deltaTime passed to scene.Update
  stepStart,  \* scene.bodies as they were when the current fixed step began
  lastCall,   \* the last call made from outside the render callback
  budget      \* render callbacks and outside calls made so far

vars == << engine, bodies, scene, pc, pass, log, calls, frame, stepStart, lastCall, budget >>

\* Bounds of the exploration.
MaxFrames == 2

MaxCalls == 1

\* Milliseconds between two render callbacks.
FrameDeltas == {10, 300, 1000}

\* Arguments of calls made from outside the render callback.
Forces == { Vector2(Z(-9000), Z(0)) }

Impulses == { Vector2(Z(-8), Z(0)) }

TipPositions == { Vector2(Z(15), Z(0)) }

Engine(physicsParams) ==
  [maxStepsPerFrame |-> physicsParams.maxStepsPerFrame,
   stepDuration |-> RDiv(Z(1000), Z(physicsParams.targetStepsPerSecond)),
   previousFrameTime |-> Z(0),
   engineTimeSincePreviousStep |-> Z(0),
   timeScale |-> Z(1)]

EightBallPool(cueBall, cueBallBody) ==
  [state |-> Aiming,
   cue |-> [cueBall |-> cueBall, visible |-> TRUE, tipPosition |-> cueBallBody.transform.position]]

NoCall == [op |-> "none"]

NoFrame == [elapsed |-> Z(0), deltaTime |-> Z(0), clamped |-> FALSE,
            steps |-> 0, fixedUpdates |-> 0, postFixedUpdates |-> 0]

Init ==
  \E s \in Scenes :
    /\ engine = Engine(s.physicsParams)
    /\ bodies = s.bodies
    /\ scene = EightBallPool(s.cueBall, s.bodies[s.cueBall])
    /\ pc = "idle"
    /\ pass = 1
    /\ log = << >>
    /\ calls = << >>
    /\ frame = NoFrame
    /\ stepStart = s.bodies
    /\ lastCall = NoCall
    /\ budget = [frames |-> 0, calls |-> 0]

timeStep == RDiv(engine.stepDuration, Z(1000))

\* The accumulator ceiling: stepDuration * maxStepsPerFrame.
Ceiling(e) == RMul(e.stepDuration, Z(e.maxStepsPerFrame))


\* Load without the cap on the accumulator.
CapAccumulatorMissing(e, accumulator) == accumulator

\* The accumulator after the cap of Load.
CapAccumulator(e, accumulator) ==
  IF RGt(accumulator, Ceiling(e)) THEN Ceiling(e) ELSE accumulator

\* The loop condition letting one whole step stay in the accumulator.
StepDueLate(e) == RGt(e.engineTimeSincePreviousStep, RMul(Z(2), e.stepDuration))

\* `engine.engineTimeSincePreviousStep > engine.stepDuration`
StepDue(e) == RGt(e.engineTimeSincePreviousStep, e.stepDuration)

---------------------------------------------------------------------------
(* The render callback `loop` of Engine.Load, stage by stage *)

\* From the entry of loop(t) to the head of its while loop.
LoopBegin(dt) ==
  /\ pc = "idle"
  /\ budget.frames < MaxFrames
  /\ LET t == RAdd(engine.previousFrameTime, Z(dt))
         deltaTime == RMul(RSub(t, engine.previousFrameTime), engine.timeScale)
         accumulator == RAdd(engine.engineTimeSincePreviousStep, deltaTime)
         capped == CapAccumulator(engine, accumulator)
         clamped == RGt(accumulator, Ceiling(engine))
     IN  /\ engine' = [engine EXCEPT !.previousFrameTime = t,
                                     !.engineTimeSincePreviousStep = capped]
         /\ frame' = [elapsed |-> deltaTime,
                      deltaTime |-> IF clamped THEN RSub(capped, deltaTime) ELSE deltaTime,
                      clamped |-> clamped,
                      steps |-> 0, fixedUpdates |-> 0, postFixedUpdates |-> 0]
  /\ pc' = "while"
  /\ budget' = [budget EXCEPT !.frames = @ + 1]
  /\ lastCall' = NoCall
  /\ UNCHANGED << bodies, scene, pass, log, calls, stepStart >>

\* One turn of the while loop begins: the accumulator pays for a step and
\* scene.FixedUpdate runs (EightBallPool.FixedUpdate is empty).
SceneFixedUpdate ==
  /\ pc = "while"
  /\ StepDue(engine)
  /\ engine' = [engine EXCEPT !.engineTimeSincePreviousStep = RSub(@, engine.stepDuration)]
  /\ frame' = [frame EXCEPT !.fixedUpdates = @ + 1]
  /\ calls' = << "scene.FixedUpdate" >>
  /\ log' = << >>
  /\ stepStart' = bodies
  /\ pc' = "SimulatePhysicsStep"
  /\ UNCHANGED << bodies, scene, pass, lastCall, budget >>

\* SimulatePhysicsStep up to its for loop.
DetectAndResolve ==
  /\ pc = "SimulatePhysicsStep"
  /\ \E w \in { narrowPhase(World(bodies, log), broadPhase(bodies, generatePairs(bodies))) } :
       /\ bodies' = w.bodies
       /\ log' = w.log
  /\ calls' = calls \o << "generatePairs", "broadPhase", "narrowPhase" >>
  /\ frame' = [frame EXCEPT !.steps = @ + 1]
  /\ pass' = 1
  /\ pc' = "for"
  /\ UNCHANGED << engine, scene, stepStart, lastCall, budget >>


\* The for loop of SimulatePhysicsStep running one pass short.
PassDueShort(i) == i < 5

\* The bound of the for loop of SimulatePhysicsStep: `i < 6`.
PassDue(i) == i < 6

\* One turn of the for loop of SimulatePhysicsStep.
CorrectionPass ==
  /\ pc = "for"
  /\ PassDue(pass)
  /\ \E w \in { correctPositions(World(bodies, log), broadPhase(bodies, generatePairs(bodies))) } :
       /\ bodies' = correctShapePositions(w.bodies)
       /\ log' = w.log
  /\ calls' = calls \o << "generatePairs", "broadPhase", "correctPositions",
                          "correctShapePositions" >>
  /\ pass' = pass + 1
  /\ UNCHANGED << engine, scene, pc, frame, stepStart, lastCall, budget >>

\* The end of SimulatePhysicsStep.
ApplyForces ==
  /\ pc = "for"
  /\ ~PassDue(pass)
  /\ bodies' = applyForces(timeStep, bodies)
  /\ calls' = Append(calls, "applyForces")
  /\ pc' = "PostFixedUpdate"
  /\ UNCHANGED << engine, scene, pass, log, frame, stepStart, lastCall, budget >>

\* scene.PostFixedUpdate, and back to the head of the while loop.
PostFixedUpdate ==
  /\ pc = "PostFixedUpdate"
  /\ scene' = ScenePostFixedUpdate(scene, bodies)
  /\ calls' = Append(calls, "scene.PostFixedUpdate")
  /\ frame' = [frame EXCEPT !.postFixedUpdates = @ + 1]
  /\ pc' = "while"
  /\ UNCHANGED << engine, bodies, pass, log, stepStart, lastCall, budget >>

\* From the exit of the while loop to the return of loop(t).
LoopEnd ==
  /\ pc = "while"
  /\ ~StepDue(engine)
  /\ LET stepInterpolation == RDiv(engine.engineTimeSincePreviousStep, engine.stepDuration)
     IN  bodies' = [i \in 1..Len(bodies) |->
                      [bodies[i] EXCEPT !.shape = UpdateTransform(@, stepInterpolation)]]
  /\ pc' = "idle"
  /\ UNCHANGED << engine, scene, pass, log, calls, frame, stepStart, lastCall, budget >>

---------------------------------------------------------------------------
(* Calls made between render callbacks *)

CallApplyForce(b, force) ==
  /\ pc = "idle"
  /\ budget.calls < MaxCalls
  /\ bodies' = [bodies EXCEPT ![b] = ApplyForce(@, force)]
  /\ lastCall' = [op |-> "ApplyForce", body |-> b, arg |-> force, before |-> bodies[b]]
  /\ budget' = [budget EXCEPT !.calls = @ + 1]
  /\ UNCHANGED << engine, scene, pc, pass, log, calls, frame, stepStart >>

CallApplyImpulse(b, impulse) ==
  /\ pc = "idle"
  /\ budget.calls < MaxCalls
  /\ bodies' = [bodies EXCEPT ![b] = ApplyImpulse(@, impulse)]
  /\ lastCall' = [op |-> "ApplyImpulse", body |-> b, arg |-> impulse, before |-> bodies[b]]
  /\ budget' = [budget EXCEPT !.calls = @ + 1]
  /\ UNCHANGED << engine, scene, pc, pass, log, calls, frame, stepStart >>

\* handleMouseMove
MouseMove(position) ==
  /\ pc = "idle"
  /\ budget.calls < MaxCalls
  /\ scene.cue.tipPosition # position
  /\ scene' = [scene EXCEPT !.cue.tipPosition = position]
  /\ UNCHANGED << engine, bodies, pc, pass, log, calls, frame, stepStart, lastCall, budget >>

\* handleMouseClick
MouseClick ==
  /\ pc = "idle"
  /\ budget.calls < MaxCalls
  /\ scene.state = Aiming
  /\ bodies' = HitBall(scene.cue, bodies)
  /\ scene' = SetState(scene, Simulating)
  /\ lastCall' = [op |-> "HitBall", body |-> scene.cue.cueBall,
                  arg |-> scene.cue.tipPosition, before |-> bodies[scene.cue.cueBall]]
  /\ budget' = [budget EXCEPT !.calls = @ + 1]
  /\ UNCHANGED << engine, pc, pass, log, calls, frame, stepStart >>

Next ==
  \/ \E dt \in FrameDeltas : LoopBegin(dt)
  \/ SceneFixedUpdate
  \/ DetectAndResolve
  \/ CorrectionPass
  \/ ApplyForces
  \/ PostFixedUpdate
  \/ LoopEnd
  \/ \E b \in 1..Len(bodies), force \in Forces : CallApplyForce(b, force)
  \/ \E b \in 1..Len(bodies), impulse \in Impulses : CallApplyImpulse(b, impulse)
  \/ \E position \in TipPositions : MouseMove(position)
  \/ MouseClick

Spec == Init /\ [][Next]_vars

---------------------------------------------------------------------------
(* The game left running: render callbacks without end *)

\* physicsParams of a page that steps the physics at 30 steps a second.
SlowFrames == [maxStepsPerFrame |-> 3, targetStepsPerSecond |-> 30]

\* A barrier panel and the cue ball at rest beside it, no spin.
LiveScenes ==
  { SceneOf(p, << Wall, PoolBall(Z(14), Z(0), Vector2(Z(0), Z(0))) >>, 2) : p \in {Fine, SlowFrames} }

\* Milliseconds between render callbacks: always more than one fixed step.
LiveFrameDeltas == {300}

\* Where the mouse puts the cue tip: 0.45 from the centre of the cue ball.
LiveTipPositions == { Vector2(R(271, 20), Z(0)) }

LiveInit ==
  \E s \in LiveScenes :
    /\ engine = Engine(s.physicsParams)
    /\ bodies = s.bodies
    /\ scene = EightBallPool(s.cueBall, s.bodies[s.cueBall])
    /\ pc = "idle"
    /\ pass = 1
    /\ log = << >>
    /\ calls = << >>
    /\ frame = NoFrame
    /\ stepStart = s.bodies
    /\ lastCall = NoCall
    /\ budget = [frames |-> 0, calls |-> 0]

\* loop(t) up to its while loop, for a page that never closes.  loop reads t
\* only through t - previousFrameTime, so the clock is kept relative to the
\* previous callback: t = dt and previousFrameTime stays 0.
LiveLoopBegin(dt) ==
  /\ pc = "idle"
  /\ LET deltaTime == RMul(RSub(Z(dt), Z(0)), engine.timeScale)
         accumulator == RAdd(engine.engineTimeSincePreviousStep, deltaTime)
         capped == CapAccumulator(engine, accumulator)
         clamped == RGt(accumulator, Ceiling(engine))
     IN  /\ engine' = [engine EXCEPT !.engineTimeSincePreviousStep = capped]
         /\ frame' = [elapsed |-> deltaTime,
                      deltaTime |-> IF clamped THEN RSub(capped, deltaTime) ELSE deltaTime,
                      clamped |-> clamped,
                      steps |-> 0, fixedUpdates |-> 0, postFixedUpdates |-> 0]
  /\ pc' = "while"
  /\ lastCall' = NoCall
  /\ UNCHANGED << bodies, scene, pass, log, calls, stepStart, budget >>

\* What one render callback runs, from requestAnimationFrame to its return.
RenderCallback ==
  \/ \E dt \in LiveFrameDeltas : LiveLoopBegin(dt)
  \/ SceneFixedUpdate
  \/ DetectAndResolve
  \/ CorrectionPass
  \/ ApplyForces
  \/ PostFixedUpdate
  \/ LoopEnd

\* The player only aims and shoots: no ApplyForce or ApplyImpulse from outside.
LiveNext ==
  \/ RenderCallback
  \/ \E position \in LiveTipPositions : MouseMove(position)
  \/ MouseClick

\* loop re-arms requestAnimationFrame on every call and every call runs to
\* completion: weak fairness of RenderCallback.  Some disjunct of RenderCallback
\* is enabled in every state (each guard is a test of pc and pass), so
\* WF_vars(RenderCallback) is []<><<RenderCallback>>_vars, the form TLC is given
\* for the steps that do arithmetic.
LiveSpec ==
  /\ LiveInit
  /\ [][LiveNext]_vars
  /\ WF_vars(SceneFixedUpdate \/ PostFixedUpdate)
  /\ []<><<RenderCallback>>_vars

---------------------------------------------------------------------------
(* Properties *)

Bodies == 1..Len(bodies)

Entries(ev) == { i \in 1..Len(log) : log[i].ev = ev }

\* A fixed step has just integrated: scene.PostFixedUpdate is next.
StepEnd == pc = "PostFixedUpdate"

\* C1: in every render callback the number of fixed physics steps run is at
\* most maxStepsPerFrame, whatever the elapsed time.
C1_StepsWithinCap == frame.steps <= engine.maxStepsPerFrame

\* A callback whose accumulator was cut to the ceiling has run steps and returned.
C1_Witness == pc = "idle" /\ frame.clamped /\ frame.steps >= 2

IsCircle(i) == bodies[i].shape.kind = "Circle"

IsStaticBox(j) == bodies[j].shape.kind = "Box" /\ bodies[j].static

CentreStrictlyInside(position, box) ==
  LET bounds == GenerateAABB(box.shape, box.transform)
  IN  /\ RLt(bounds.min.x, position.x) /\ RLt(position.x, bounds.max.x)
      /\ RLt(bounds.min.y, position.y) /\ RLt(position.y, bounds.max.y)

\* C2: at the end of every fixed step, after integration, no circle's centre
\* lies strictly inside a static box.
C2_NoTunnelling ==
  StepEnd =>
    \A i, j \in Bodies :
      IsCircle(i) /\ IsStaticBox(j)
        => ~CentreStrictlyInside(bodies[i].transform.position, bodies[j])

\* The contact test is positive at some pose subStep samples for the pair.
ContactAtSomeSample(bs, pair) ==
  LET w == subStep(World(bs, << >>), pair)
  IN  \E i \in 1..Len(w.log) : w.log[i].ev = "sample" /\ w.log[i].collision

\* C3: the broad phase keeps every generated pair whose contact test is
\* positive at some pose subStep would sample.
C3_BroadPhaseSound ==
  pc = "SimulatePhysicsStep" =>
    LET pairs == generatePairs(bodies)
        kept == broadPhase(bodies, pairs)
    IN  \A k \in 1..Len(pairs) :
          ContactAtSomeSample(bodies, pairs[k])
            => \E m \in 1..Len(kept) : kept[m] = pairs[k]

\* C4: a contact whose relative velocity along the normal is >= 0 leaves both
\* velocities as they were.
C4_SeparatingUntouched ==
  \A i \in Entries("resolveCollision") :
    RGe(log[i].velocityAlongNormal, Z(0))
      => log[i].afterA = log[i].beforeA /\ log[i].afterB = log[i].beforeB

\* A resolved contact of two circles of equal mass, both of restitution 1,
\* approaching each other.
ElasticEqualContact(e) ==
  LET A == bodies[e.pair.bodyA]
      B == bodies[e.pair.bodyB]
  IN  /\ A.shape.kind = "Circle" /\ B.shape.kind = "Circle"
      /\ A.inv_mass = B.inv_mass /\ RGt(A.inv_mass, Z(0))
      /\ A.restitution = Z(1) /\ B.restitution = Z(1)
      /\ RLt(e.velocityAlongNormal, Z(0))

\* C5: two circles of equal mass and restitution 1 that approach each other
\* leave resolveCollision with their velocity components along the normal swapped.
C5_ElasticSwap ==
  \A i \in Entries("resolveCollision") :
    ElasticEqualContact(log[i])
      => /\ Dot(log[i].afterA, log[i].collisionData.normal)
              = Dot(log[i].beforeB, log[i].collisionData.normal)
         /\ Dot(log[i].afterB, log[i].collisionData.normal)
              = Dot(log[i].beforeA, log[i].collisionData.normal)

C5_Witness ==
  \E i \in Entries("resolveCollision") :
    ElasticEqualContact(log[i]) /\ log[i].beforeA # log[i].beforeB

Momentum(A, velocityA, B, velocityB) ==
  Add(Mult(velocityA, RDiv(Z(1), A.inv_mass)), Mult(velocityB, RDiv(Z(1), B.inv_mass)))

\* C6: resolveCollision on two bodies of non-zero inverse mass conserves the
\* total linear momentum.
C6_MomentumConserved ==
  \A i \in Entries("resolveCollision") :
    LET A == bodies[log[i].pair.bodyA]
        B == bodies[log[i].pair.bodyB]
    IN  RGt(A.inv_mass, Z(0)) /\ RGt(B.inv_mass, Z(0))
          => Momentum(A, log[i].afterA, B, log[i].afterB)
               = Momentum(A, log[i].beforeA, B, log[i].beforeB)

\* An impulse has changed the velocities of two bodies of different mass, with
\* a restitution below 1.
C6_Witness ==
  \E i \in Entries("resolveCollision") :
    LET A == bodies[log[i].pair.bodyA]
        B == bodies[log[i].pair.bodyB]
    IN  /\ RGt(A.inv_mass, Z(0)) /\ RGt(B.inv_mass, Z(0)) /\ A.inv_mass # B.inv_mass
        /\ RLt(RMin(A.restitution, B.restitution), Z(1))
        /\ log[i].afterA # log[i].beforeA /\ log[i].afterB # log[i].beforeB

\* C7: the velocity of a body whose inv_mass is 0 never changes.
C7_ZeroInvMassVelocityKept ==
  [][\A b \in Bodies : bodies[b].inv_mass = Z(0) => bodies'[b].velocity = bodies[b].velocity]_vars

\* The contact test was positive for a pair of body b in the current fixed step.
InContact(b) ==
  \E i \in 1..Len(log) :
    /\ b \in {log[i].pair.bodyA, log[i].pair.bodyB}
    /\ \/ log[i].ev = "sample" /\ log[i].collision
       \/ log[i].ev \in {"resolveCollision", "applyPositionalCorrection"}

\* The body's own FixedUpdate hook adds no force.
HookForceZero(body) == BodyFixedUpdate(body, timeStep).force = body.force

\* The body began the current fixed step at rest, as integration leaves a body
\* it has snapped, with no force waiting for it, and met no contact in the step.
RestsThroughStep(b) ==
  /\ stepStart[b].isStationary
  /\ stepStart[b].velocity = ZERO
  /\ stepStart[b].force = ZERO
  /\ HookForceZero(stepStart[b])
  /\ ~InContact(b)

\* C8: a body at rest, with no force or impulse applied and in no contact, ends
\* the fixed step still stationary and exactly where it was.
C8_RestIsIdempotent ==
  StepEnd =>
    \A b \in Bodies :
      RestsThroughStep(b)
        => /\ bodies[b].isStationary
           /\ bodies[b].transform.position = stepStart[b].transform.position

\* A ball that has rolled to rest, while another body of the scene still moves
\* or has been tested against it.
C8_Witness ==
  /\ StepEnd
  /\ \E b \in Bodies :
       /\ RestsThroughStep(b)
       /\ bodies[b].class = "Ball"
       /\ bodies[b].transform.position # Vector2(Z(14), Z(0))
       /\ bodies[b].transform.position # Vector2(Z(19), Z(0))

ExtraPasses == 5

RECURSIVE Repeat(_, _)
Repeat(stages, k) == IF k = 0 THEN << >> ELSE stages \o Repeat(stages, k - 1)

\* The stages of one fixed step, in order.
StepStages ==
  << "scene.FixedUpdate", "generatePairs", "broadPhase", "narrowPhase" >>
    \o Repeat(<< "generatePairs", "broadPhase", "correctPositions", "correctShapePositions" >>,
              ExtraPasses)
    \o << "applyForces", "scene.PostFixedUpdate" >>

IsPrefix(p, q) == Len(p) <= Len(q) /\ \A i \in 1..Len(p) : p[i] = q[i]

\* C9: a fixed step runs its stages once each, in order, and a step ends
\* before the next begins; when a render callback is at the head of its loop
\* or has returned, it has called scene.FixedUpdate, run physics steps and
\* called scene.PostFixedUpdate equally often.
C9_StagesInOrder ==
  /\ IsPrefix(calls, StepStages)
  /\ (pc \in {"while", "idle"} /\ calls # << >>) => calls = StepStages
  /\ pc \in {"while", "idle"}
       => frame.fixedUpdates = frame.steps /\ frame.steps = frame.postFixedUpdates

C9_Witness == pc = "idle" /\ frame.steps = 2 /\ calls = StepStages

\* The velocity applyForces integrates a body's position with.
IntegratedVelocity(body) ==
  Add(body.velocity,
      Mult(BodyFixedUpdate(body, timeStep).force, RMul(body.inv_mass, timeStep)))

\* C10: ApplyForce leaves velocity and position alone and adds the force to the
\* accumulator, where it stays until the next integration; that integration
\* adds force * inv_mass * timeStep to the velocity and clears the accumulator.
C10_ForceConsumedOnce ==
  [][\A b \in Bodies :
       IF pc = "for" /\ pc' = "PostFixedUpdate"
       THEN /\ bodies'[b].force = ZERO
            /\ bodies'[b].transform.position
                 = Add(bodies[b].transform.position,
                       Mult(IntegratedVelocity(bodies[b]), timeStep))
            /\ bodies'[b].velocity \in {IntegratedVelocity(bodies[b]), ZERO}
       ELSE IF budget'.calls # budget.calls /\ lastCall'.op = "ApplyForce" /\ lastCall'.body = b
            THEN bodies'[b] = [bodies[b] EXCEPT !.force = Add(@, lastCall'.arg)]
            ELSE bodies'[b].force = bodies[b].force]_vars

\* A force applied from outside has been integrated into the velocity of a
\* body that goes on moving.
C10_Witness ==
  /\ StepEnd
  /\ \E b \in Bodies :
       /\ stepStart[b].force # ZERO
       /\ bodies[b].force = ZERO
       /\ RGt(bodies[b].inv_mass, Z(0))
       /\ ~bodies[b].isStationary

\* C11 as stated: after every fixed step shape.previous is the body's pose at
\* the start of the step and shape.current its pose at the end.
C11_PreviousIsStepStart ==
  StepEnd =>
    \A b \in Bodies :
      /\ bodies[b].shape.previous = stepStart[b].transform
      /\ bodies[b].shape.current = bodies[b].transform

\* C11, amended: integration leaves shape.previous at the body's pose just
\* before it (the pose the narrow phase and the correction passes left, which is
\* the pose at the start of the step only if they moved nothing) and
\* shape.current at the body's new pose.
C11_PreviousIsPoseBeforeIntegration ==
  [][(pc = "for" /\ pc' = "PostFixedUpdate")
       => \A b \in Bodies :
            /\ bodies'[b].shape.previous = bodies[b].transform
            /\ bodies'[b].previous = bodies[b].transform
            /\ bodies'[b].shape.current = bodies'[b].transform]_vars

\* A step has ended in which a body was moved before integration.
C11_Witness ==
  /\ StepEnd
  /\ \E b \in Bodies :
       /\ bodies[b].shape.previous # stepStart[b].transform
       /\ bodies[b].shape.previous = bodies[b].previous
       /\ InContact(b)

\* v lies between a and b (in either order).
Between(v, a, b) == RLe(RMin(a, b), v) /\ RLe(v, RMax(a, b))

\* Point p lies on the segment from a to b.
OnSegment(p, a, b) ==
  /\ Between(p.x, a.x, b.x)
  /\ Between(p.y, a.y, b.y)
  /\ REq(RMul(RSub(p.x, a.x), RSub(b.y, a.y)), RMul(RSub(p.y, a.y), RSub(b.x, a.x)))

FinitePose(t) == IsFinite(t.position.x) /\ IsFinite(t.position.y)

\* The render callback has finished its stepping loop and updated the shapes.
LoopEnded == pc = "while" /\ pc' = "idle"

\* C12: when the stepping loop of a render callback has ended, the accumulator
\* is in [0, stepDuration], the interpolation fraction is in [0, 1], and every
\* shape's interpolated position is on the segment from its previous to its
\* current position (for shapes whose two poses are finite numbers).
C12_InterpolationWithinStep ==
  [][LoopEnded =>
       /\ RLe(Z(0), engine'.engineTimeSincePreviousStep)
       /\ RLe(engine'.engineTimeSincePreviousStep, engine'.stepDuration)
       /\ RLe(Z(0), RDiv(engine'.engineTimeSincePreviousStep, engine'.stepDuration))
       /\ RLe(RDiv(engine'.engineTimeSincePreviousStep, engine'.stepDuration), Z(1))
       /\ \A b \in Bodies :
            (FinitePose(bodies'[b].shape.previous) /\ FinitePose(bodies'[b].shape.current))
              => OnSegment(bodies'[b].shape.interpolatedTransform.position,
                           bodies'[b].shape.previous.position,
                           bodies'[b].shape.current.position)]_vars

\* A callback that stepped has ended with a fraction strictly inside (0, 1) and
\* a shape drawn strictly between two different poses.
C12_Witness ==
  /\ pc = "idle"
  /\ frame.steps > 0
  /\ RLt(Z(0), engine.engineTimeSincePreviousStep)
  /\ RLt(engine.engineTimeSincePreviousStep, engine.stepDuration)
  /\ \E b \in Bodies :
       /\ FinitePose(bodies[b].shape.previous) /\ FinitePose(bodies[b].shape.current)
       /\ bodies[b].shape.interpolatedTransform # bodies[b].shape.previous
       /\ bodies[b].shape.interpolatedTransform # bodies[b].shape.current
       /\ OnSegment(bodies[b].shape.interpolatedTransform.position,
                    bodies[b].shape.previous.position,
                    bodies[b].shape.current.position)

Samples == Entries("sample")

\* The number of the sample within its subStep call: the k-th sample is taken
\* at interpolation k / iterations.
SampleNumber(e) == RMul(e.interpolation, e.iterations)

\* C13: subStep with iteration count n tests exactly n sample poses, each at an
\* interpolation parameter in [0, 1], so no body is tested at, or snapped to, a
\* pose beyond its current transform (stated for finite iteration counts).
C13_SamplesWithinStep ==
  \A k \in Samples :
    IsFinite(log[k].iterations) =>
    /\ RLe(SampleNumber(log[k]), log[k].iterations)
    /\ RLe(Z(0), log[k].interpolation)
    /\ RLe(log[k].interpolation, Z(1))

IsBox(j) == bodies[j].shape.kind = "Box"

\* The circle's centre relative to the box's centre, as the shapes stand.
RelativeCentre(c, x) ==
  Subtract(bodies[c].shape.current.position, bodies[x].shape.current.position)

\* The circle's centre is inside the box: clamping its relative position to the
\* box's extents changes nothing.
CentreInsideBox(c, x) ==
  /\ IsFinite(RelativeCentre(c, x).x) /\ IsFinite(RelativeCentre(c, x).y)
  /\ Closest(RelativeCentre(c, x),
             RDiv(bodies[x].shape.width, Z(2)), RDiv(bodies[x].shape.height, Z(2)))
       = RelativeCentre(c, x)

UnitLength(v) == REq(MagnitudeSquared(v), Z(1))

\* C14: whenever a circle's centre is inside a box, checkCollision reports a
\* contact for the pair (in either order) whose normal is a non-zero unit
\* vector, so that the circle is pushed out of the box.
C14_InsideBranchPushesOut ==
  \A c \in Bodies : \A x \in Bodies :
    (IsCircle(c) /\ IsBox(x) /\ CentreInsideBox(c, x))
      => \A pair \in {Pair(c, x), Pair(x, c)} :
           /\ checkCollision(bodies, pair) # Null
           /\ UnitLength(checkCollision(bodies, pair).collisionData.normal)

\* The pairs the correction pass about to run will hand to checkCollision first.
PairsUnderTest ==
  IF pc = "for" /\ PassDue(pass)
  THEN { p \in Bodies \X Bodies :
           \E k \in DOMAIN broadPhase(bodies, generatePairs(bodies)) :
             broadPhase(bodies, generatePairs(bodies))[k] = Pair(p[1], p[2]) }
  ELSE {}

\* The pairs of circles under test whose shapes stand at finite poses.
CirclePairs ==
  { p \in PairsUnderTest :
      /\ IsCircle(p[1]) /\ IsCircle(p[2])
      /\ FinitePose(bodies[p[1]].shape.current) /\ FinitePose(bodies[p[2]].shape.current) }

RadiusSum(p) == RAdd(bodies[p[1]].shape.radius, bodies[p[2]].shape.radius)

DistanceSquared(p) ==
  MagnitudeSquared(Subtract(bodies[p[2]].shape.current.position,
                            bodies[p[1]].shape.current.position))

CircleContact(p) == getCollisionCircleVsCircle(bodies[p[1]].shape, bodies[p[2]].shape)

\* The penetration reported is the radius sum minus the distance, and is not negative.
PenetrationIsOverlap(p) ==
  /\ RGe(CircleContact(p).penetration, Z(0))
  /\ RGe(RSub(RadiusSum(p), CircleContact(p).penetration), Z(0))
  /\ REq(RSq(RSub(RadiusSum(p), CircleContact(p).penetration)), DistanceSquared(p))

\* C15 as stated: two circles are in contact exactly when the squared distance
\* of their centres is strictly less than the square of the radius sum, and
\* then the penetration is the radius sum minus the distance.
C15_ContactIffStrictlyCloser ==
  \A p \in CirclePairs :
    /\ (CircleContact(p) # Null) <=> RLt(DistanceSquared(p), RSq(RadiusSum(p)))
    /\ (CircleContact(p) # Null) => PenetrationIsOverlap(p)

\* C15, amended: two circles are in contact exactly when the squared distance of
\* their centres is at most the square of the radius sum (circles that exactly
\* touch are in contact, with penetration 0), and then the penetration is the
\* radius sum minus the distance, which is not negative.
C15_ContactIffNotFarther ==
  \A p \in CirclePairs :
    /\ (CircleContact(p) # Null) <=> RLe(DistanceSquared(p), RSq(RadiusSum(p)))
    /\ (CircleContact(p) # Null) => PenetrationIsOverlap(p)

\* Two circles exactly touch and the test reports a contact of penetration 0.
C15_Witness ==
  \E p \in CirclePairs :
    /\ REq(DistanceSquared(p), RSq(RadiusSum(p)))
    /\ CircleContact(p) # Null
    /\ REq(CircleContact(p).penetration, Z(0))

\* The integration of a fixed step.
Integration == pc = "for" /\ pc' = "PostFixedUpdate"

\* C16: a body whose updated velocity falls below the threshold has its velocity
\* snapped to zero before its position is integrated, so the step that marks it
\* stationary leaves its position unchanged.
C16_RestingStepKeepsPosition ==
  [][Integration =>
       \A b \in Bodies :
         (bodies'[b].isStationary /\ FinitePose(bodies[b].transform))
           => bodies'[b].transform.position = bodies[b].transform.position]_vars

\* narrowPhase has just run: the log holds its samples and resolutions.
NarrowPhaseDone == pc = "for" /\ pass = 1

\* The samples with a positive contact test.
Hits == { k \in Samples : log[k].collision }

\* The pose on the way from a body's previous pose to its transform at
\* parameter t, as the body stood when the step began.
PoseAlongStep(b, t) ==
  Transform(Add(stepStart[b].previous.position,
                Mult(Subtract(stepStart[b].transform.position,
                              stepStart[b].previous.position), t)),
            stepStart[b].transform.rotation)

\* The position transform held when resolveCollision (log entry r) was called:
\* the position the correction that follows started from, or, when the
\* resolution returned early and ended the narrow phase, the body's position now.
PositionAtResolution(r, b) ==
  IF r < Len(log) /\ log[r + 1].ev = "applyPositionalCorrection"
  THEN IF b = log[r].pair.bodyA THEN log[r + 1].beforeA ELSE log[r + 1].beforeB
  ELSE bodies[b].transform.position

\* The hit k is the first of the step, so the step-start poses are those subStep
\* interpolated between, and the pose it snapped to can still be read off.
SnapReadable(k) ==
  /\ \A j \in Hits : k <= j
  /\ \/ k + 1 = Len(log)
     \/ k + 1 < Len(log) /\ log[k + 2].ev = "applyPositionalCorrection"
  /\ \A b \in {log[k].pair.bodyA, log[k].pair.bodyB} :
       FinitePose(stepStart[b].previous) /\ FinitePose(stepStart[b].transform)

\* C18: for each broad-phase pair subStep resolves at most one contact: at the
\* smallest sampled parameter whose test is positive it sets both transforms to
\* the interpolated poses, calls resolveCollision exactly once and stops; if no
\* sample is positive, the narrow phase changes no transform and no velocity.
C18_OneResolutionPerPair ==
  NarrowPhaseDone =>
    /\ \A k \in Hits :
         /\ \A j \in Samples :
              log[j].pair = log[k].pair =>
                /\ j <= k
                /\ j < k => (~log[j].collision
                              /\ RLt(log[j].interpolation, log[k].interpolation))
         /\ k < Len(log)
         /\ log[k + 1].ev = "resolveCollision"
         /\ log[k + 1].pair = log[k].pair
         /\ SnapReadable(k) =>
              \A b \in {log[k].pair.bodyA, log[k].pair.bodyB} :
                PositionAtResolution(k + 1, b) = PoseAlongStep(b, log[k].interpolation).position
    /\ \A r \in Entries("resolveCollision") :
         /\ r > 1
         /\ log[r - 1].ev = "sample"
         /\ log[r - 1].collision
         /\ log[r - 1].pair = log[r].pair
    /\ Hits = {} =>
         \A b \in Bodies :
           /\ bodies[b].transform = stepStart[b].transform
           /\ bodies[b].velocity = stepStart[b].velocity

\* A narrow phase has found a contact after at least one negative sample,
\* snapped the pair there and resolved it.
C18_Witness ==
  /\ NarrowPhaseDone
  /\ \E k \in Hits :
       /\ SnapReadable(k)
       /\ \E j \in Samples : j < k /\ log[j].pair = log[k].pair
       /\ RLt(log[k].interpolation, Z(1))
       /\ bodies[log[k].pair.bodyA].transform # stepStart[log[k].pair.bodyA].transform
            \/ bodies[log[k].pair.bodyB].transform # stepStart[log[k].pair.bodyB].transform

\* The pairs under test, in both orders.
OrderedPairsUnderTest ==
  PairsUnderTest \cup { << p[2], p[1] >> : p \in PairsUnderTest }

\* Two circles with different centres, or a box and a circle whose centre is
\* outside the box, all at finite poses.
ProperPair(a, b) ==
  /\ FinitePose(bodies[a].shape.current) /\ FinitePose(bodies[b].shape.current)
  /\ \/ /\ IsCircle(a) /\ IsCircle(b)
        /\ bodies[a].shape.current.position # bodies[b].shape.current.position
     \/ IsCircle(a) /\ IsBox(b) /\ ~CentreInsideBox(a, b)
     \/ IsBox(a) /\ IsCircle(b) /\ ~CentreInsideBox(b, a)

\* The vector from the first shape's centre to the second's.
CentreToCentre(a, b) ==
  Subtract(bodies[b].shape.current.position, bodies[a].shape.current.position)

\* C20: every contact checkCollision reports for two circles that do not
\* coincide, or for a box and a circle whose centre is outside the box, has a
\* normal of unit length that points from pair.bodyA toward pair.bodyB, whichever
\* way round the pair is given.
C20_NormalFromAToB ==
  \A p \in OrderedPairsUnderTest :
    (ProperPair(p[1], p[2]) /\ checkCollision(bodies, Pair(p[1], p[2])) # Null)
      => /\ UnitLength(checkCollision(bodies, Pair(p[1], p[2])).collisionData.normal)
         /\ RGt(Dot(checkCollision(bodies, Pair(p[1], p[2])).collisionData.normal,
                    CentreToCentre(p[1], p[2])), Z(0))

\* A circle outside a box is in contact with it, and the contact is reported
\* for the pair both ways round.
C20_Witness ==
  \E p \in OrderedPairsUnderTest :
    /\ IsCircle(p[1]) /\ IsBox(p[2])
    /\ ProperPair(p[1], p[2])
    /\ checkCollision(bodies, Pair(p[1], p[2])) # Null
    /\ checkCollision(bodies, Pair(p[2], p[1])) # Null
    /\ checkCollision(bodies, Pair(p[1], p[2])).collisionData.normal
         # checkCollision(bodies, Pair(p[2], p[1])).collisionData.normal

\* The extra correction passes of a step have all run.
PassesDone == pc = "for" /\ ~PassDue(pass)

\* C17: when the extra correction passes have run, no two bodies of which at
\* least one is not static overlap by more than the slop, clusters of touching
\* balls and pairs of bodies both flagged stationary included (stated for
\* circles that do not coincide and circles whose centre is outside the box).
C17_NoOverlapAfterPasses ==
  PassesDone =>
    \A a \in Bodies : \A b \in Bodies :
      (a # b /\ ~(bodies[a].static /\ bodies[b].static) /\ ProperPair(a, b)
         /\ checkCollision(bodies, Pair(a, b)) # Null)
        => RLe(checkCollision(bodies, Pair(a, b)).collisionData.penetration, slop)

\* How many of the pairs generatePairs returns hold the bodies a and b, in
\* either order.
PairCount(a, b) ==
  Cardinality({ k \in DOMAIN generatePairs(bodies) :
                  generatePairs(bodies)[k] \in {Pair(a, b), Pair(b, a)} })

BothStatic(a, b) == bodies[a].static /\ bodies[b].static

BothStationary(a, b) == bodies[a].isStationary /\ bodies[b].isStationary

\* C19: generatePairs returns exactly one Pair for each unordered pair of
\* different bodies that are not both static and not both flagged stationary,
\* and nothing else: never a pair in both orders, never (X, X), never two static
\* bodies, never two stationary bodies.
C19_OnePairPerUnorderedPair ==
  \A a \in Bodies : \A b \in Bodies :
    PairCount(a, b) =
      IF a # b /\ ~BothStatic(a, b) /\ ~BothStationary(a, b) THEN 1 ELSE 0

\* A step has generated pairs for a scene that holds two static bodies, two
\* bodies at rest of which one is not static, and at least three pairs to return.
C19_Witness ==
  /\ pc = "for"
  /\ Len(generatePairs(bodies)) >= 3
  /\ \E a \in Bodies : \E b \in Bodies : a # b /\ BothStatic(a, b)
  /\ \E a \in Bodies : \E b \in Bodies :
       a # b /\ BothStationary(a, b) /\ ~BothStatic(a, b)
  /\ \E a \in Bodies : \E b \in Bodies : a # b /\ BothStatic(a, b) /\ ~BothStationary(a, b)

\* C21: a body flagged static is never integrated: applyForces changes neither
\* its velocity nor its position.
C21_StaticNeverIntegrated ==
  [][Integration =>
       \A b \in Bodies :
         bodies[b].static =>
           /\ bodies'[b].velocity = bodies[b].velocity
           /\ bodies'[b].transform.position = bodies[b].transform.position]_vars

\* A state between operations: no callback is running, a fixed step has just
\* ended, or the narrow phase has just resolved its contacts.
Observable == pc = "idle" \/ StepEnd \/ NarrowPhaseDone

\* C22: in every state observable between operations isStationary is true
\* exactly when the body's squared velocity is below the threshold 1 (stated
\* for bodies whose velocity is a finite number).
C22_StationaryIsDerived ==
  Observable =>
    \A b \in Bodies :
      (IsFinite(bodies[b].velocity.x) /\ IsFinite(bodies[b].velocity.y))
        => (bodies[b].isStationary <=> RLt(MagnitudeSquared(bodies[b].velocity), Z(1)))

Corrections == Entries("applyPositionalCorrection")

\* The sum of the inverse masses of the pair of log entry e.
InvMassSum(e) == RAdd(bodies[e.pair.bodyA].inv_mass, bodies[e.pair.bodyB].inv_mass)

\* The depth to correct: max(penetration - slop, 0) / percent.
Excess(e) == RDiv(RMax(RSub(e.collisionData.penetration, slop), Z(0)), percent)

VectorEq(u, v) == REq(u.x, v.x) /\ REq(u.y, v.y)

\* Body A was moved by -normal * c * inv_mass_A and body B by
\* +normal * c * inv_mass_B, where c * (inv_mass_A + inv_mass_B) is the excess.
SplitByInvMass(e) ==
  /\ VectorEq(Mult(Subtract(e.afterA, e.beforeA), InvMassSum(e)),
              Mult(e.collisionData.normal,
                   RNeg(RMul(Excess(e), bodies[e.pair.bodyA].inv_mass))))
  /\ VectorEq(Mult(Subtract(e.afterB, e.beforeB), InvMassSum(e)),
              Mult(e.collisionData.normal,
                   RMul(Excess(e), bodies[e.pair.bodyB].inv_mass)))

\* The separation applied along the normal.
SeparationApplied(e) ==
  Dot(Subtract(Subtract(e.afterB, e.beforeB), Subtract(e.afterA, e.beforeA)),
      e.collisionData.normal)

\* C23: applyPositionalCorrection splits the excess of the penetration over the
\* slop between the bodies in proportion to their inverse masses, does not move
\* a body of inverse mass 0, moves nobody when the penetration is at most the
\* slop, and separates the pair by less than a positive penetration.
C23_CorrectionSplitByInvMass ==
  \A k \in Corrections :
    /\ SplitByInvMass(log[k])
    /\ REq(bodies[log[k].pair.bodyA].inv_mass, Z(0)) => log[k].afterA = log[k].beforeA
    /\ REq(bodies[log[k].pair.bodyB].inv_mass, Z(0)) => log[k].afterB = log[k].beforeB
    /\ RLe(log[k].collisionData.penetration, slop)
         => log[k].afterA = log[k].beforeA /\ log[k].afterB = log[k].beforeB
    /\ RGt(log[k].collisionData.penetration, Z(0))
         => RLt(SeparationApplied(log[k]), log[k].collisionData.penetration)

Resolutions == Entries("resolveCollision")

\* The resolution of log entry e met an approaching pair with a positive
\* inverse-mass sum.
Approaching(e) ==
  /\ RLt(e.velocityAlongNormal, Z(0))
  /\ RGt(InvMassSum(e), Z(0))

\* min(restitution_A, restitution_B) of the pair of log entry e.
PairRestitution(e) ==
  RMin(bodies[e.pair.bodyA].restitution, bodies[e.pair.bodyB].restitution)

\* The z component of the cross product: zero when u is parallel to v.
Cross(u, v) == RSub(RMul(u.x, v.y), RMul(u.y, v.x))

\* C24: resolving an approaching contact between bodies whose inverse masses
\* sum to more than 0 leaves the relative velocity along the normal at -e times
\* its value before, e the smaller restitution, and changes each velocity only
\* along the normal.
C24_RestitutionIsMin ==
  \A k \in Resolutions :
    Approaching(log[k]) =>
      /\ REq(Dot(Subtract(log[k].afterB, log[k].afterA), log[k].collisionData.normal),
             RMul(RNeg(PairRestitution(log[k])), log[k].velocityAlongNormal))
      /\ REq(Cross(Subtract(log[k].afterA, log[k].beforeA), log[k].collisionData.normal), Z(0))
      /\ REq(Cross(Subtract(log[k].afterB, log[k].beforeB), log[k].collisionData.normal), Z(0))

\* An approaching pair with different restitutions has been resolved while one
\* of the bodies carried a velocity across the normal.
C24_Witness ==
  \E k \in Resolutions :
    /\ Approaching(log[k])
    /\ bodies[log[k].pair.bodyA].restitution # bodies[log[k].pair.bodyB].restitution
    /\ ~REq(Cross(log[k].beforeB, log[k].collisionData.normal), Z(0))
    /\ log[k].afterB # log[k].beforeB

Axes == {"x", "y"}

\* The size of a body's bounding box along an axis.
Extent(body, axis) ==
  IF body.shape.kind = "Circle" THEN RMul(Z(2), body.shape.radius)
  ELSE IF axis = "x" THEN body.shape.width ELSE body.shape.height

\* How far a body had moved along an axis, from its previous pose to its
\* transform, when the step began.
Displacement(b, axis) ==
  RAbs(RSub(stepStart[b].transform.position[axis], stepStart[b].previous.position[axis]))

\* ceil(|displacement| / (extent / 4)) for one body and one axis.
SamplesNeeded(b, axis) ==
  RCeil(RDiv(Displacement(b, axis), RDiv(Extent(stepStart[b], axis), Z(4))))

\* The largest need over both bodies of the pair and both axes.
MostNeeded(pair) ==
  RMax(RMax(SamplesNeeded(pair.bodyA, "x"), SamplesNeeded(pair.bodyA, "y")),
       RMax(SamplesNeeded(pair.bodyB, "x"), SamplesNeeded(pair.bodyB, "y")))

\* The samples taken before any contact of the step was resolved, of pairs at
\* finite poses: their bodies still stood as at the start of the step.
EarlySamples ==
  { k \in Samples :
      /\ \A j \in Hits : k <= j
      /\ \A b \in {log[k].pair.bodyA, log[k].pair.bodyB} :
           FinitePose(stepStart[b].previous) /\ FinitePose(stepStart[b].transform) }

\* C25: the sub-sample count of a pair is 1 + the largest, over both bodies
\* and both axes, of ceil(|displacement| / (extent / 4)); so from one sample to
\* the next each body moves at most a quarter of its extent on each axis, and
\* the count is 1 when neither body moved.
C25_SampleCount ==
  NarrowPhaseDone =>
    \A k \in EarlySamples :
      /\ REq(log[k].iterations, RAdd(Z(1), MostNeeded(log[k].pair)))
      /\ \A b \in {log[k].pair.bodyA, log[k].pair.bodyB} : \A axis \in Axes :
           RLe(RDiv(Displacement(b, axis), log[k].iterations),
               RDiv(Extent(stepStart[b], axis), Z(4)))
      /\ (\A b \in {log[k].pair.bodyA, log[k].pair.bodyB} : \A axis \in Axes :
            REq(Displacement(b, axis), Z(0)))
           => REq(log[k].iterations, Z(1))

\* A pair has been sampled whose two bodies need different numbers of samples,
\* the larger need being that of the pair's second body and more than 1.
C25_Witness ==
  /\ NarrowPhaseDone
  /\ \E k \in EarlySamples :
       /\ RGt(SamplesNeeded(log[k].pair.bodyB, "x"), Z(1))
       /\ RGt(SamplesNeeded(log[k].pair.bodyB, "x"), SamplesNeeded(log[k].pair.bodyA, "x"))
       /\ REq(log[k].iterations, RAdd(Z(1), SamplesNeeded(log[k].pair.bodyB, "x")))

\* The resolutions of two circles whose centres coincided: the only contacts of
\* two circles with the zero vector as normal.
CoincidentResolutions ==
  { k \in Resolutions :
      /\ IsCircle(log[k].pair.bodyA) /\ IsCircle(log[k].pair.bodyB)
      /\ log[k].collisionData.normal = ZERO }

\* C26: two circles with exactly coincident centres are reported in contact
\* with the zero vector as normal and penetration rA + rB, and resolving and
\* correcting that contact changes neither body's velocity nor position.
C26_CoincidentCirclesUntouched ==
  \A k \in CoincidentResolutions :
    /\ REq(log[k].collisionData.penetration,
           RAdd(bodies[log[k].pair.bodyA].shape.radius, bodies[log[k].pair.bodyB].shape.radius))
    /\ log[k].afterA = log[k].beforeA
    /\ log[k].afterB = log[k].beforeB
    /\ k < Len(log)
    /\ log[k + 1].ev = "applyPositionalCorrection"
    /\ log[k + 1].afterA = log[k + 1].beforeA
    /\ log[k + 1].afterB = log[k + 1].beforeB

\* C27: every pair that reaches resolveCollision or applyPositionalCorrection
\* has inv_mass_A + inv_mass_B > 0, so neither divides by zero.
C27_InvMassSumPositive ==
  \A k \in Resolutions \cup Corrections : RGt(InvMassSum(log[k]), Z(0))

\* C28: whenever a correction pass evaluates a contact test, the shape.current
\* of each body of the pair equals that body's transform as it is when the pass
\* begins; the first pass does not test poses left by the sub-sampling (stated
\* for bodies at finite poses).
C28_PassTestsTransforms ==
  \A p \in PairsUnderTest :
    (FinitePose(bodies[p[1]].transform) /\ FinitePose(bodies[p[2]].transform))
      => /\ bodies[p[1]].shape.current = bodies[p[1]].transform
         /\ bodies[p[2]].shape.current = bodies[p[2]].transform


\* C29: once the game state is Simulating, with no further impulse, no spin and
\* render callbacks that keep running fixed steps, a step eventually ends with
\* every body stationary and its PostFixedUpdate puts the state back to Aiming.
C29_SimulationComesToRest == (scene.state = Simulating) ~> (scene.state = Aiming)


\* C30: in every render callback the deltaTime handed to scene.Update is not
\* negative and not more than the time-scaled wall time elapsed since the previous
\* callback, callbacks that clamped the accumulator included.
C30_DeltaTimeWithinElapsed ==
  RLe(Z(0), frame.deltaTime) /\ RLe(frame.deltaTime, frame.elapsed)

=============================================================================
